---- MODULE Spec2Model ----
(***************************************************************************)
(* Model of custom_components/ynab/__init__.py: the integration's setup    *)
(* (async_setup, check_files, check_url) and the throttled refresh of the  *)
(* YnabData client (update_data, request_import) that publishes budget     *)
(* metrics into hass.data[DOMAIN_DATA].                                    *)
(***************************************************************************)
EXTENDS Integers, Sequences, FiniteSets, TLC

VARIABLES
    present,     \* files that exist under <config>/custom_components/<DOMAIN>/
    config,      \* config[DOMAIN]: the configured accounts and categories
    setup,       \* async_setup: "none" (not called), "ok" (True), "failed" (False)
    setupUrl,    \* the answer check_url got while async_setup ran
    created,     \* TRUE once hass.data[DOMAIN_DATA] has been assigned
    data,        \* hass.data[DOMAIN_DATA], a dict (function from keys to values)
    client,      \* the YnabData instance made by async_setup
    tasks,       \* platform load tasks given to hass.async_create_task
    now,         \* the clock, in seconds
    today,       \* date.today(), <<year, month, day>>
    throttle,    \* Throttle's record of the last executed update_data
    lastCall     \* the inputs and effects of the latest update_data call

vars == <<present, config, setup, setupUrl, created, data, client, tasks,
          now, today, throttle, lastCall>>

-----------------------------------------------------------------------------
(* Constants of the program *)

Domain == "ynab"

REQUIRED_FILES == <<"const.py", "manifest.json", "sensor.py">>

PLATFORMS == <<"sensor">>

MIN_TIME_BETWEEN_UPDATES == 300

MilliunitsPerUnit == 1000

HttpOk == 200

HttpCreated == 201

DEFAULT_API_ENDPOINT == "https://api.youneedabudget.com/v1"

ImportEndpoint == DEFAULT_API_ENDPOINT \o "/budgets/<budget>/transactions/import"

EventTopic == Domain \o "_event"

-----------------------------------------------------------------------------
(* Bounds of the model *)

MaxTime == 310

-----------------------------------------------------------------------------
(* Values held by the data dictionary.  Every value is a record of one     *)
(* shape: the YnabData object, a Python int, or a Python float kept as the *)
(* fraction num/den in lowest terms.                                       *)

Abs(n) == IF n < 0 THEN -n ELSE n

RECURSIVE GCD(_, _)
GCD(a, b) == IF b = 0 THEN a ELSE GCD(b, a % b)

ClientObj == [kind |-> "YnabData", num |-> 0, den |-> 1]

IntVal(n) == [kind |-> "int", num |-> n, den |-> 1]

FloorDiv(a, b) == [kind |-> "int", num |-> a \div b, den |-> 1]

\* Python's a / b on ints (b > 0): the exact quotient, as a float
TrueDiv(a, b) ==
    LET g == GCD(Abs(a), b)
    IN  [kind |-> "float", num |-> a \div g, den |-> b \div g]

Put(d, k, v) == [x \in (DOMAIN d) \cup {k} |-> IF x = k THEN v ELSE d[x]]

EmptyDict == [x \in {} |-> ClientObj]

-----------------------------------------------------------------------------
(* check_files, check_url, async_setup *)

AnyPresent(files) ==
    LET missing == SelectSeq(REQUIRED_FILES, LAMBDA f : f \notin files)
    IN  Len(missing) < Len(REQUIRED_FILES)

check_files(files) ==
    LET missing == SelectSeq(REQUIRED_FILES, LAMBDA f : f \notin files)
    IN  IF missing # <<>> THEN FALSE ELSE TRUE

NotRaised(response) == ~response.raised

check_url(response) ==
    IF response.raised THEN FALSE
    ELSE IF response.status = HttpOk THEN TRUE ELSE FALSE

UrlResponses ==
    {[raised |-> TRUE, status |-> 0]}
    \cup {[raised |-> FALSE, status |-> s] : s \in {HttpOk, HttpCreated, 404}}

NoneList == [isNone |-> TRUE, names |-> {}]

List(S) == [isNone |-> FALSE, names |-> S]

NoClient == [exists |-> FALSE, accounts |-> NoneList, categories |-> NoneList]

\* YnabData.__init__
YnabData(cfg) ==
    [exists |-> TRUE, accounts |-> cfg.accounts, categories |-> cfg.categories]

-----------------------------------------------------------------------------
(* The entities read off the fetched budget *)

Account(n, ob, bal) == [name |-> n, on_budget |-> ob, balance |-> bal]

\* approved is "True", "False" or "None"
Transaction(a, c) == [approved |-> a, cleared |-> c]

Category(n, bal, bud) == [name |-> n, balance |-> bal, budgeted |-> bud]

Month(m, tbb, bud, act, aom, cats) ==
    [month |-> m, to_be_budgeted |-> tbb, budgeted |-> bud, activity |-> act,
     age_of_money |-> aom, categories |-> cats]

Budget(accts, txns, months) ==
    [accounts |-> accts, transactions |-> txns, months |-> months]

\* date.strftime("%Y-%m-01")
Pad2(n) == IF n < 10 THEN "0" \o ToString(n) ELSE ToString(n)

Strftime(d) == ToString(d[1]) \o "-" \o Pad2(d[2]) \o "-01"

DaysIn(y, m) ==
    IF m = 2 THEN (IF y % 4 = 0 /\ (y % 100 # 0 \/ y % 400 = 0) THEN 29 ELSE 28)
    ELSE IF m \in {4, 6, 9, 11} THEN 30 ELSE 31

NextDay(d) ==
    IF d[3] < DaysIn(d[1], d[2]) THEN <<d[1], d[2], d[3] + 1>>
    ELSE IF d[2] < 12 THEN <<d[1], d[2] + 1, 1>>
    ELSE <<d[1] + 1, 1, 1>>

-----------------------------------------------------------------------------
(* YnabData.request_import *)

\* the try block: the error it ends with, and the events it fired
ImportBody(imp) ==
    IF imp.raised THEN [error |-> "ClientError", fired |-> <<>>]
    ELSE IF imp.status \notin {HttpOk, HttpCreated} THEN [error |-> "none", fired |-> <<>>]
    ELSE IF ~imp.json THEN [error |-> "JSONDecodeError", fired |-> <<>>]
    ELSE IF ~imp.hasIds THEN [error |-> "KeyError", fired |-> <<>>]
    ELSE IF ~imp.hasHeader THEN [error |-> "KeyError", fired |-> <<>>]
    ELSE IF imp.ids > 0
         THEN [error |-> "none",
               fired |-> <<[topic |-> EventTopic, transactions_imported |-> imp.ids]>>]
         ELSE [error |-> "none", fired |-> <<>>]

request_import_reraise(imp) ==
    LET body == ImportBody(imp)
    IN  [raised |-> body.error # "none", fired |-> body.fired]

\* except Exception: logged, never re-raised
request_import(imp) ==
    LET body == ImportBody(imp)
    IN  [raised |-> FALSE, fired |-> body.fired]

-----------------------------------------------------------------------------
(* YnabData.update_data, the body under the throttle *)

ConvertFloor(milli) == FloorDiv(milli, MilliunitsPerUnit)

\* milliunits / 1000
Convert(milli) == TrueDiv(milli, MilliunitsPerUnit)

\* hass.data[DOMAIN_DATA][key] = val, remembered with the field it came from
Write(st, key, val, what, i, j) ==
    [st EXCEPT !.data = Put(st.data, key, val),
               !.writes = Append(st.writes,
                   [key |-> key, val |-> val, what |-> what, i |-> i, j |-> j])]

Raise(st, error) == [st EXCEPT !.result = error]

Unapproved(txns) == Len(SelectSeq(txns, LAMBDA t : t.approved # "True"))

Uncleared(txns) == Len(SelectSeq(txns, LAMBDA t : t.cleared = "uncleared"))

RECURSIVE TotalBalanceAll(_, _)
TotalBalanceAll(accts, i) ==
    IF i > Len(accts) THEN 0
    ELSE accts[i].balance + TotalBalanceAll(accts, i + 1)

RECURSIVE TotalBalance(_, _)
TotalBalance(accts, i) ==
    IF i > Len(accts) THEN 0
    ELSE (IF accts[i].on_budget THEN accts[i].balance ELSE 0)
         + TotalBalance(accts, i + 1)

Overspent(cats) == Len(SelectSeq(cats, LAMBDA c : c.balance < 0))

\* lines 147-194: the budget-wide metrics
PublishTotals(st, budget) ==
    LET s1 == Write(st, "to_be_budgeted",
                    Convert(budget.months[1].to_be_budgeted), "to_be_budgeted", 1, 0)
        s2 == Write(s1, "need_approval",
                    IntVal(Unapproved(budget.transactions)), "need_approval", 0, 0)
        s3 == Write(s2, "uncleared_transactions",
                    IntVal(Uncleared(budget.transactions)), "uncleared_transactions", 0, 0)
    IN  Write(s3, "total_balance",
              Convert(TotalBalance(budget.accounts, 1)), "total_balance", 0, 0)

\* lines 196-205: one key per configured account
RECURSIVE AccountsLoop(_, _, _, _)
AccountsLoop(st, self, accts, i) ==
    IF st.result # "running" \/ i > Len(accts) THEN st
    ELSE IF self.accounts.isNone THEN Raise(st, "TypeError")
    ELSE IF accts[i].name \notin self.accounts.names
         THEN AccountsLoop(st, self, accts, i + 1)
    ELSE AccountsLoop(
             Write(st, accts[i].name, Convert(accts[i].balance), "account", i, 0),
             self, accts, i + 1)

\* lines 247-261: two keys per configured category of month m
RECURSIVE CategoriesLoop(_, _, _, _, _)
CategoriesLoop(st, self, cats, m, j) ==
    IF st.result # "running" \/ j > Len(cats) THEN st
    ELSE IF self.categories.isNone THEN Raise(st, "TypeError")
    ELSE IF cats[j].name \notin self.categories.names
         THEN CategoriesLoop(st, self, cats, m, j + 1)
    ELSE LET s1 == Write(st, cats[j].name, Convert(cats[j].balance), "category", m, j)
             s2 == Write(s1, cats[j].name \o "_budgeted", Convert(cats[j].budgeted),
                         "category_budgeted", m, j)
         IN  CategoriesLoop(s2, self, cats, m, j + 1)

\* lines 207-261: the month whose date is the first day of today's month
RECURSIVE MonthsLoop(_, _, _, _, _)
MonthsLoop(st, self, months, date, m) ==
    IF st.result # "running" \/ m > Len(months) THEN st
    ELSE IF months[m].month # Strftime(date)
         THEN MonthsLoop(st, self, months, date, m + 1)
    ELSE LET mo == months[m]
             s1 == Write(st, "budgeted_this_month", Convert(mo.budgeted),
                         "budgeted_this_month", m, 0)
             s2 == Write(s1, "activity_this_month", Convert(mo.activity),
                         "activity_this_month", m, 0)
             s3 == Write(s2, "age_of_money", IntVal(mo.age_of_money),
                         "age_of_money", m, 0)
             s4 == Write(s3, "overspent_categories", IntVal(Overspent(mo.categories)),
                         "overspent_categories", m, 0)
             s5 == CategoriesLoop(s4, self, mo.categories, m, 1)
         IN  MonthsLoop(s5, self, months, date, m + 1)

update_data(d, self, imp, fetch, budget, date) ==
    LET import == request_import(imp)
        st0 == [data |-> d, writes |-> <<>>, result |-> "running",
                fired |-> import.fired, contacted |-> {ImportEndpoint}]
        st1 == [st0 EXCEPT !.contacted = @ \cup {"get_budgets"}]
        st2 == [st1 EXCEPT !.contacted = @ \cup {"get_budget"}]
    IN  IF import.raised THEN Raise(st0, "ImportError")
        ELSE IF fetch.raised THEN Raise(st1, "ApiException")
        ELSE IF fetch.budgets = 0 THEN Raise(st2, "AttributeError")
        ELSE IF budget.months = <<>> THEN Raise(st2, "IndexError")
        ELSE LET s3 == PublishTotals(st2, budget)
                 s4 == AccountsLoop(s3, self, budget.accounts, 1)
                 s5 == MonthsLoop(s4, self, budget.months, date, 1)
             IN  IF s5.result = "running" THEN Raise(s5, "completed") ELSE s5

-----------------------------------------------------------------------------
(* Throttle(MIN_TIME_BETWEEN_UPDATES) around update_data *)

NeverThrottled(thr, t) == FALSE

\* the call is skipped unless it is the first or more than min_time has passed
Throttled(thr, t) == thr.set /\ ~(t - thr.at > MIN_TIME_BETWEEN_UPDATES)

-----------------------------------------------------------------------------
(* Inputs *)

Configs ==
    { [accounts |-> NoneList, categories |-> NoneList],
      [accounts |-> List({"Checking"}), categories |-> List({"Food"})],
      [accounts |-> List({"Checking", "total_balance", "client"}),
       categories |-> List({"Food", "Food_budgeted"})],
      [accounts |-> List({"Food"}), categories |-> List({"Rent"})] }

FirstDay == <<2024, 5, 31>>

LastDay == <<2024, 6, 1>>

Imp(r, s, js, has, n, hdr) ==
    [raised |-> r, status |-> s, json |-> js, hasIds |-> has, ids |-> n, hasHeader |-> hdr]

NoImport == Imp(TRUE, 0, FALSE, FALSE, 0, FALSE)

ImportResponses ==
    { NoImport,
      Imp(FALSE, 404, TRUE, FALSE, 0, TRUE),
      Imp(FALSE, HttpOk, FALSE, FALSE, 0, TRUE),
      Imp(FALSE, HttpOk, TRUE, FALSE, 0, TRUE),
      Imp(FALSE, HttpOk, TRUE, TRUE, 0, TRUE),
      Imp(FALSE, HttpCreated, TRUE, TRUE, 2, TRUE),
      Imp(FALSE, HttpOk, TRUE, TRUE, 1, FALSE) }

NoFetch == [raised |-> TRUE, budgets |-> 0]

Fetches == {NoFetch, [raised |-> FALSE, budgets |-> 0], [raised |-> FALSE, budgets |-> 2]}

Accounts0 == <<>>

Accounts1 ==
    <<Account("Checking", TRUE, 1500), Account("Savings", FALSE, -2500),
      Account("Food", TRUE, 250)>>

Accounts2 == <<Account("total_balance", TRUE, 123456), Account("client", TRUE, 1000)>>

Transactions1 == <<Transaction("True", "cleared")>>

Transactions2 ==
    <<Transaction("False", "cleared"), Transaction("None", "uncleared"),
      Transaction("True", "reconciled")>>

Months0 == <<>>

Months1 ==
    <<Month("2024-06-01", 5000, 250000, -1999, 30,
            <<Category("Food", -500, 40000), Category("Rent", 0, 100000)>>),
      Month("2024-05-01", 0, 1000, -100, 12,
            <<Category("Food", 1250, 3000), Category("Food_budgeted", -1, 7)>>)>>

Months2 == <<Month("2024-04-01", 999, 2000, -3000, 7, <<Category("Food", -10, 20)>>)>>

Budgets ==
    { Budget(Accounts1, Transactions2, Months1),
      Budget(Accounts2, Transactions1, Months1),
      Budget(Accounts1, Transactions1, Months2),
      Budget(Accounts0, Transactions2, Months2),
      Budget(Accounts0, Transactions2, Months0) }

NoBudget == Budget(<<>>, <<>>, <<>>)

NoThrottle == [set |-> FALSE, at |-> 0]

NoCall ==
    [called |-> FALSE, time |-> 0, prev |-> NoThrottle, ran |-> FALSE,
     result |-> "none", imp |-> NoImport, fetch |-> NoFetch, budget |-> NoBudget,
     date |-> FirstDay, fired |-> <<>>, contacted |-> {}, writes |-> <<>>]

-----------------------------------------------------------------------------
(* The state machine *)

Init ==
    /\ present \in SUBSET {REQUIRED_FILES[i] : i \in 1..Len(REQUIRED_FILES)}
    /\ config \in Configs
    /\ setup = "none"
    /\ setupUrl = [raised |-> TRUE, status |-> 0]
    /\ created = FALSE
    /\ data = EmptyDict
    /\ client = NoClient
    /\ tasks = <<>>
    /\ now = 0
    /\ today = FirstDay
    /\ throttle = NoThrottle
    /\ lastCall = NoCall

\* async_setup(hass, config)
AsyncSetup ==
    /\ setup = "none"
    /\ \E response \in UrlResponses :
         /\ setupUrl' = response
         /\ IF ~check_files(present)
            THEN /\ setup' = "failed"
                 /\ UNCHANGED <<created, data, client, tasks>>
            ELSE IF ~check_url(response)
            THEN /\ setup' = "failed"
                 /\ UNCHANGED <<created, data, client, tasks>>
            ELSE /\ created' = TRUE
                 /\ client' = YnabData(config)
                 /\ data' = Put(EmptyDict, "client", ClientObj)
                 /\ tasks' = tasks \o PLATFORMS
                 /\ setup' = "ok"
    /\ UNCHANGED <<present, config, now, today, throttle, lastCall>>

\* the clock advances
Tick ==
    /\ \E d \in {150, 151} :
         /\ now + d <= MaxTime
         /\ now' = now + d
    /\ UNCHANGED <<present, config, setup, setupUrl, created, data, client, tasks,
                   today, throttle, lastCall>>

\* the date changes
Midnight ==
    /\ today # LastDay
    /\ today' = NextDay(today)
    /\ UNCHANGED <<present, config, setup, setupUrl, created, data, client, tasks,
                   now, throttle, lastCall>>

\* a sensor calls client.update_data()
UpdateData ==
    /\ setup = "ok"
    /\ client.exists
    /\ IF Throttled(throttle, now)
       THEN /\ lastCall' = [NoCall EXCEPT !.called = TRUE, !.time = now,
                                          !.prev = throttle, !.result = "throttled",
                                          !.date = today]
            /\ UNCHANGED <<data, throttle>>
       ELSE \E imp \in ImportResponses, fetch \in Fetches, budget \in Budgets :
              LET r == update_data(data, client, imp, fetch, budget, today)
              IN  /\ data' = r.data
                  /\ throttle' = [set |-> TRUE, at |-> now]
                  /\ lastCall' = [called |-> TRUE, time |-> now, prev |-> throttle,
                                  ran |-> TRUE, result |-> r.result, imp |-> imp,
                                  fetch |-> fetch, budget |-> budget, date |-> today,
                                  fired |-> r.fired, contacted |-> r.contacted,
                                  writes |-> r.writes]
    /\ UNCHANGED <<present, config, setup, setupUrl, created, client, tasks, now, today>>

Next == AsyncSetup \/ Tick \/ Midnight \/ UpdateData

Spec == Init /\ [][Next]_vars

-----------------------------------------------------------------------------
(* Vocabulary of the properties *)

AllPresent == \A i \in 1..Len(REQUIRED_FILES) : REQUIRED_FILES[i] \in present

UrlReachable == ~setupUrl.raised /\ setupUrl.status = 200

\* the step is a call of update_data whose body ran
Executes == throttle' # throttle

\* the step is a call of update_data
Calls == lastCall' # lastCall \/ Executes

ImportFailed(imp) ==
    \/ imp.raised
    \/ imp.status \notin {200, 201}
    \/ ~imp.json
    \/ ~imp.hasIds
    \/ ~imp.hasHeader

SuccessfulImport == Imp(FALSE, HttpOk, TRUE, TRUE, 0, TRUE)

FixedKeys ==
    {"to_be_budgeted", "need_approval", "uncleared_transactions", "total_balance",
     "budgeted_this_month", "activity_this_month", "age_of_money",
     "overspent_categories"}

MonthKeys ==
    {"budgeted_this_month", "activity_this_month", "age_of_money", "overspent_categories"}

Monetary ==
    {"to_be_budgeted", "total_balance", "account", "budgeted_this_month",
     "activity_this_month", "category", "category_budgeted"}

\* the milliunit (or plain) field of the fetched budget a written value came from
Field(b, w) ==
    CASE w.what = "to_be_budgeted" -> b.months[1].to_be_budgeted
      [] w.what = "total_balance" ->
             TotalBalanceAll(SelectSeq(b.accounts, LAMBDA a : a.on_budget), 1)
      [] w.what = "account" -> b.accounts[w.i].balance
      [] w.what = "budgeted_this_month" -> b.months[w.i].budgeted
      [] w.what = "activity_this_month" -> b.months[w.i].activity
      [] w.what = "category" -> b.months[w.i].categories[w.j].balance
      [] w.what = "category_budgeted" -> b.months[w.i].categories[w.j].budgeted
      [] w.what = "age_of_money" -> b.months[w.i].age_of_money
      [] w.what = "need_approval" ->
             Cardinality({k \in 1..Len(b.transactions) :
                            b.transactions[k].approved # "True"})
      [] w.what = "uncleared_transactions" ->
             Cardinality({k \in 1..Len(b.transactions) :
                            b.transactions[k].cleared = "uncleared"})
      [] w.what = "overspent_categories" ->
             Cardinality({k \in 1..Len(b.months[w.i].categories) :
                            b.months[w.i].categories[k].balance < 0})

\* the last write of the call to the key of write k
LastWrite(ws, k) ==
    LET K == {n \in 1..Len(ws) : ws[n].key = ws[k].key}
    IN  ws[CHOOSE n \in K : \A o \in K : o <= n]

CurrentMonths(b, date) == {m \in 1..Len(b.months) : b.months[m].month = Strftime(date)}

Same(k) ==
    /\ (k \in DOMAIN data') <=> (k \in DOMAIN data)
    /\ k \in DOMAIN data => data'[k] = data[k]

-----------------------------------------------------------------------------
(* C1: check_files returns False exactly when at least one entry of        *)
(* REQUIRED_FILES does not exist; for every subset of present files it     *)
(* returns True exactly when all required files are present, and           *)
(* async_setup acts on that answer.                                        *)
C1_CheckFiles ==
    /\ check_files(present) <=> AllPresent
    /\ setup = "ok" => AllPresent
    /\ (setup = "failed" /\ UrlReachable) => ~AllPresent

C1_Witness ==
    /\ setup = "failed"
    /\ UrlReachable
    /\ Cardinality(present) = Len(REQUIRED_FILES) - 1

(* C2: async_setup returns False when a required file is missing or        *)
(* check_url saw an exception or a status other than 200, and then the     *)
(* data dictionary is not created, no client is stored and no platform     *)
(* load task is scheduled; it returns True only when both checks passed,   *)
(* and then the client is stored and one load task per platform is         *)
(* scheduled.                                                              *)
C2_SetupAborts ==
    /\ (setup # "none" /\ ~(AllPresent /\ UrlReachable)) => setup = "failed"
    /\ setup = "failed" =>
          /\ ~(AllPresent /\ UrlReachable)
          /\ ~created
          /\ data = EmptyDict
          /\ ~client.exists
          /\ tasks = <<>>
    /\ setup = "ok" =>
          /\ AllPresent /\ UrlReachable
          /\ created
          /\ client = YnabData(config)
          /\ ~lastCall.called => data = [k \in {"client"} |-> ClientObj]
          /\ Len(tasks) = Len(PLATFORMS)
          /\ \A i \in 1..Len(PLATFORMS) : tasks[i] = PLATFORMS[i]

C2_Witness ==
    /\ setup = "failed"
    /\ AllPresent
    /\ ~setupUrl.raised
    /\ setupUrl.status # 200

(* C3: two executions of the refresh body are at least 300 seconds apart,  *)
(* and a call made less than 300 seconds after the last executed one       *)
(* contacts no remote endpoint, fires no event and leaves the data store   *)
(* unchanged.                                                              *)
C3_Throttle ==
    [][ /\ (Executes /\ throttle.set) => throttle'.at - throttle.at >= 300
        /\ (Calls /\ throttle.set /\ now - throttle.at < 300) =>
              /\ ~Executes
              /\ data' = data
              /\ lastCall'.contacted = {}
              /\ lastCall'.fired = <<>> ]_vars

C3_Witness ==
    /\ lastCall.result = "throttled"
    /\ lastCall.prev.set
    /\ lastCall.time - lastCall.prev.at < 300
    /\ DOMAIN data # {"client"}

(* C4: whatever goes wrong inside request_import, it returns normally and  *)
(* update_data fetches the budgets and publishes the metrics exactly as it *)
(* would after a successful import.                                        *)
C4_ImportNonFatal ==
    [][ Executes =>
          LET ok == update_data(data, client, SuccessfulImport, lastCall'.fetch,
                                lastCall'.budget, today)
          IN  /\ lastCall'.result = ok.result
              /\ lastCall'.writes = ok.writes
              /\ lastCall'.contacted = ok.contacted
              /\ data' = ok.data ]_vars

C4_Witness ==
    /\ lastCall.ran
    /\ ImportFailed(lastCall.imp)
    /\ lastCall.result = "completed"
    /\ Len(lastCall.writes) > 4

(* C5: after a refresh that completes, every monetary value it wrote       *)
(* equals the corresponding milliunit value of the fetched budget divided  *)
(* by 1000, age_of_money and the counts are stored unconverted, and each   *)
(* written key holds the value last written to it.                         *)
C5_UnitConversion ==
    lastCall.result = "completed" =>
        \A k \in 1..Len(lastCall.writes) :
            LET w == lastCall.writes[k]
                x == Field(lastCall.budget, w)
            IN  /\ w.what \in Monetary =>
                      /\ w.val.kind = "float"
                      /\ w.val.den > 0
                      /\ w.val.num * 1000 = x * w.val.den
                /\ w.what \notin Monetary => w.val = [kind |-> "int", num |-> x, den |-> 1]
                /\ w.key \in DOMAIN data
                /\ data[w.key] = LastWrite(lastCall.writes, k).val

C5_Witness ==
    /\ lastCall.result = "completed"
    /\ \E k \in 1..Len(lastCall.writes) :
          lastCall.writes[k].what = "account" /\ lastCall.writes[k].val.den # 1
    /\ \E k \in 1..Len(lastCall.writes) : lastCall.writes[k].what = "category_budgeted"
    /\ \E k \in 1..Len(lastCall.writes) : lastCall.writes[k].what = "age_of_money"

(* C6: request_import fires the '<DOMAIN>_event' event at most once per    *)
(* call; it fires it whenever the import POST answers with status 200 or   *)
(* 201 and a non-empty list of transaction ids, with transactions_imported *)
(* equal to the number of ids; it fires nothing when the status is         *)
(* anything else, the id list is empty, or the request raised.             *)
C6_EventAnnounced ==
    lastCall.ran =>
        LET imp == lastCall.imp
            answered == ~imp.raised /\ imp.status \in {200, 201} /\ imp.json /\ imp.hasIds
        IN  /\ Len(lastCall.fired) <= 1
            /\ (answered /\ imp.ids > 0) =>
                  /\ Len(lastCall.fired) = 1
                  /\ lastCall.fired[1].topic = "ynab_event"
                  /\ lastCall.fired[1].transactions_imported = imp.ids
            /\ (imp.raised \/ imp.status \notin {200, 201} \/ (answered /\ imp.ids = 0)) =>
                  lastCall.fired = <<>>

(* C7: a refresh writes a per-account key only for configured accounts and *)
(* the category keys only for configured categories of the current month;  *)
(* keys of unconfigured accounts and categories are never created or       *)
(* changed; without a current month in the fetched budget the month-level  *)
(* keys and all category keys are left as they were.                       *)
C7_OnlyConfigured ==
    [][ Executes =>
          LET b == lastCall'.budget
              ws == lastCall'.writes
              cur == CurrentMonths(b, today)
              reserved == FixedKeys \cup {"client"}
          IN  /\ \A k \in 1..Len(ws) :
                    /\ ws[k].what = "account" =>
                          /\ ~client.accounts.isNone
                          /\ b.accounts[ws[k].i].name \in client.accounts.names
                    /\ ws[k].what \in {"category", "category_budgeted"} =>
                          /\ ~client.categories.isNone
                          /\ b.months[ws[k].i].categories[ws[k].j].name
                                 \in client.categories.names
                          /\ ws[k].i \in cur
              /\ \A i \in 1..Len(b.accounts) :
                    (b.accounts[i].name \notin client.accounts.names
                        /\ b.accounts[i].name \notin reserved)
                    => Same(b.accounts[i].name)
              /\ \A m \in 1..Len(b.months) : \A j \in 1..Len(b.months[m].categories) :
                    LET name == b.months[m].categories[j].name
                    IN  /\ (name \notin client.categories.names /\ name \notin reserved)
                            => (Same(name) /\ Same(name \o "_budgeted"))
                        /\ cur = {} => (Same(name) /\ Same(name \o "_budgeted"))
              /\ cur = {} => \A k \in MonthKeys : Same(k) ]_vars

(* C8: after a refresh that completes, need_approval is the number of      *)
(* transactions whose approved flag is not True, uncleared_transactions    *)
(* the number whose cleared status is 'uncleared', total_balance the sum   *)
(* of the balances of on-budget accounts divided by 1000, and              *)
(* overspent_categories the number of current-month categories with a      *)
(* balance below zero.                                                     *)
C8_Aggregates ==
    lastCall.result = "completed" =>
        LET b == lastCall.budget
            cur == CurrentMonths(b, lastCall.date)
            total == TotalBalanceAll(SelectSeq(b.accounts, LAMBDA a : a.on_budget), 1)
        IN  /\ data["need_approval"] =
                  IntVal(Cardinality({k \in 1..Len(b.transactions) :
                                        b.transactions[k].approved # "True"}))
            /\ data["uncleared_transactions"] =
                  IntVal(Cardinality({k \in 1..Len(b.transactions) :
                                        b.transactions[k].cleared = "uncleared"}))
            /\ data["total_balance"].num * 1000 = total * data["total_balance"].den
            /\ \A m \in cur :
                  data["overspent_categories"] =
                      IntVal(Cardinality({k \in 1..Len(b.months[m].categories) :
                                            b.months[m].categories[k].balance < 0}))

(* C9: when the budgets summary returned by get_budgets is empty,          *)
(* update_data only logs an error: it does not raise, and it publishes     *)
(* to_be_budgeted, need_approval, uncleared_transactions and total_balance *)
(* from the budget returned by get_budget.                                 *)
C9_EmptySummary ==
    (lastCall.ran /\ ~lastCall.fetch.raised /\ lastCall.fetch.budgets = 0
        /\ lastCall.budget.months # <<>>) =>
        /\ lastCall.result # "AttributeError"
        /\ \A key \in {"to_be_budgeted", "need_approval", "uncleared_transactions",
                       "total_balance"} :
              \E k \in 1..Len(lastCall.writes) : lastCall.writes[k].what = key

(* C10: after a successful async_setup the 'client' entry always holds the *)
(* YnabData object and, after a completed refresh, the fixed metric keys   *)
(* hold that refresh's metrics, whatever the configured names are.         *)
C10_KeysKeepMeaning ==
    setup = "ok" =>
        /\ "client" \in DOMAIN data
        /\ data["client"] = ClientObj
        /\ lastCall.result = "completed" =>
              \A k \in 1..Len(lastCall.writes) :
                  LET w == lastCall.writes[k]
                  IN  w.what \in FixedKeys => data[w.what] = w.val

====
